---- MODULE Spec2Model ----
(***************************************************************************)
(* Video ingestion, background HLS transcoding and protected streaming of  *)
(* the itslab-server repository.                                           *)
(*                                                                         *)
(*   workers/videoWorker.js      the BullMQ worker and its job handler      *)
(*   services/queueService.js    the video-processing queue, addVideoJob    *)
(*   services/videoService.js    processToHLS, getLessonKey, deleteFromLocal*)
(*   controllers/instructorController.js  addLesson/updateLesson/delete     *)
(*   controllers/courseController.js      manifest, key, segment endpoints  *)
(*   controllers/paymentController.js     enrollment bookkeeping            *)
(*   server.js                   worker initialisation, static mounts       *)
(***************************************************************************)
EXTENDS Integers, Sequences, FiniteSets, TLC

(***************************************************************************)
(* Bounds of the model.                                                    *)
(***************************************************************************)
\* uploads accepted in one behaviour (each one enqueues one job)
MaxUploads == 2

(***************************************************************************)
(* Program constants.                                                      *)
(***************************************************************************)
\* a retry policy that allows one more attempt
AttemptsFour == 3 + 1

\* queueService.js defaultJobOptions.attempts
Attempts == 3
\* queueService.js defaultJobOptions.backoff.delay, in seconds (1000 ms)
BackoffDelay == 1
\* a worker allowed two jobs at a time
ConcurrencyTwo == 1 + 1

\* videoWorker.js worker option concurrency
Concurrency == 1
\* the key written as text, two hexadecimal digits for a byte
KeyLenHex == 16 * 2

\* videoService.js crypto.randomBytes(16): length of the AES-128 key
KeyLen == 16

LessonIds == {"L1", "L2"}
Users == {"u1", "u2"}
\* req.user after optionalAuth: a user, or undefined ("guest") when the
\* request carries no valid token of an active user
Viewers == Users \cup {"guest"}
Courses == {"c1", "c2"}
\* the section of a lesson belongs to one course (lesson.section.course_id)
CourseOf(l) == IF l = "L1" THEN "c1" ELSE "c2"

VARIABLES
  lessons,    \* the lessons table: one row per lesson id
  rawFiles,   \* public/uploads/videos/<timestamp>-<name>: raw uploads on disk
  hls,        \* public/uploads/videos/<lessonId>/: the output directory
  uploads,    \* number of uploads accepted so far (names the next raw file)
  jobs,       \* the jobs the queue has been given, by job id
  waitList,   \* the queue's wait list (FIFO) of job ids
  enroll,     \* the enrollments table: payment_status per user and course
  role,       \* the users table: role per user
  resp,       \* the response to the request handled in the last step
  granted,    \* history: the <<viewer, lesson>> pairs a manifest request
              \* has been answered 200 for
  calc        \* one request followed through the body of its handler: the
              \* file it reads, the header it carries and what it answers

vars == <<lessons, rawFiles, hls, uploads, jobs, waitList, enroll, role,
          resp, granted, calc>>

(***************************************************************************)
(* Values.                                                                 *)
(***************************************************************************)
\* video_url of a lesson: null, a raw upload, or the playlist of a directory
NoUrl == [kind |-> "null", raw |-> 0, dir |-> "-"]
RawUrl(n) == [kind |-> "raw", raw |-> n, dir |-> "-"]
\* `/uploads/videos/${lessonId}/playlist.m3u8`
HlsUrl(l) == [kind |-> "hls", raw |-> 0, dir |-> l]

\* a lesson id that no row has (yet, or any more)
NoLesson == [row |-> "none", video_url |-> NoUrl, is_preview |-> FALSE,
             video_processing_status |-> "-", video_processing_error |-> ""]

\* an output directory that was never created
NoDir == [key |-> 0, keyLen |-> 0, keyinfo |-> FALSE, playlist |-> "none",
          segKey |-> 0]

\* no request is being followed
NoCalc == [fn |-> "-"]

NoResp == [ep |-> "-", viewer |-> "-", lesson |-> "-", name |-> "-",
           dir |-> "-", key |-> 0, len |-> 0,
           status |-> 0, body |-> "-"]

(***************************************************************************)
(* The queue: jobs and their retry policy (BullMQ, as configured).         *)
(***************************************************************************)
\* a job as the queue holds it; state "completed" means removed from the
\* queue (removeOnComplete: true), state "failed" means kept in the failed
\* set (removeOnFail: false)
NewJob(l, n) ==
  [lessonId |-> l, inputPath |-> n, attemptsMade |-> 0, state |-> "wait",
   pc |-> "-", waited |-> 0, key |-> 0, hlsUrl |-> NoUrl]

JobIds == 1..Len(jobs)

ActiveJobs == {j \in JobIds : jobs[j].state = "active"}

\* 2^n
RECURSIVE Pow2(_)
Pow2(n) == IF n = 0 THEN 1 ELSE 2 * Pow2(n - 1)

\* backoff: { type: 'exponential', delay: 1000 }: the delay after the
\* attemptsMade-th failure is 2^(attemptsMade-1) * delay
Backoff(attemptsMade) == Pow2(attemptsMade - 1) * BackoffDelay

\* the key crypto.randomBytes(16) yields for the given delivery of a job:
\* a fresh value on every call
FreshKey(j, attemptsMade) == (j - 1) * Attempts + attemptsMade + 1

\* videoQueue.add('process-hls', {lessonId, inputPath})
AddVideoJob(l, n) ==
  /\ jobs' = Append(jobs, NewJob(l, n))
  /\ waitList' = Append(waitList, Len(jobs) + 1)

\* the queue's handling of a handler that threw: one more attempt made, then
\* a delayed retry while attempts remain, else the failed set
MoveToFailed(job) ==
  LET made == job.attemptsMade + 1 IN
  [job EXCEPT !.attemptsMade = made,
              !.state = IF made < Attempts THEN "delayed" ELSE "failed",
              !.pc = "-", !.waited = 0, !.key = 0, !.hlsUrl = NoUrl]

(***************************************************************************)
(* Files: deleteFromLocal unlinks the one file a video_url names.          *)
(***************************************************************************)
RawAfterDelete(url) ==
  IF url.kind = "raw" THEN rawFiles \ {url.raw} ELSE rawFiles

HlsAfterDelete(url) ==
  IF url.kind = "hls"
  THEN [hls EXCEPT ![url.dir].playlist = "none"]
  ELSE hls

\* fs.existsSync of the file a video_url names
UrlExists(url) ==
  \/ url.kind = "raw" /\ url.raw \in rawFiles
  \/ url.kind = "hls" /\ hls[url.dir].playlist # "none"

(***************************************************************************)
(* Upload intake (instructorController).                                   *)
(***************************************************************************)
\* the answer of an upload handler: successResponse after the job is
\* enqueued; addVideoJob re-throws when the queue cannot be reached, the
\* handler's catch passes the error to next and the error handler answers
\* 500
UploadResponse(ep, l, okStatus, queueUp) ==
  [ep |-> ep, viewer |-> "-", lesson |-> l, name |-> "-", dir |-> "-",
   key |-> 0, len |-> 0, status |-> IF queueUp THEN okStatus ELSE 500, body |-> "-"]

\* addLesson with a video file: the raw file is stored, the row is created
\* with the raw file as video_url and the column defaults for the rest, and
\* the job is enqueued; queueUp = FALSE is the queue transport being down
AddLesson(l, preview, queueUp) ==
  /\ lessons[l].row = "none"
  /\ uploads < MaxUploads
  /\ uploads' = uploads + 1
  /\ rawFiles' = rawFiles \cup {uploads + 1}
  /\ lessons' = [lessons EXCEPT ![l] =
        [row |-> "live", video_url |-> RawUrl(uploads + 1),
         is_preview |-> preview,
         video_processing_status |-> "ready",
         video_processing_error |-> ""]]
  /\ IF queueUp THEN AddVideoJob(l, uploads + 1)
                ELSE UNCHANGED <<jobs, waitList>>
  /\ resp' = UploadResponse("addLesson", l, 201, queueUp)
  /\ UNCHANGED <<hls, enroll, role, granted, calc>>

\* updateLesson with a new video file: the file the row names is unlinked,
\* the new raw file becomes video_url, a job is enqueued
UpdateLessonVideo(l, preview, queueUp) ==
  /\ lessons[l].row = "live"
  /\ uploads < MaxUploads
  /\ uploads' = uploads + 1
  /\ rawFiles' = RawAfterDelete(lessons[l].video_url) \cup {uploads + 1}
  /\ hls' = HlsAfterDelete(lessons[l].video_url)
  /\ lessons' = [lessons EXCEPT ![l].video_url = RawUrl(uploads + 1),
                                ![l].is_preview = preview]
  /\ IF queueUp THEN AddVideoJob(l, uploads + 1)
                ELSE UNCHANGED <<jobs, waitList>>
  /\ resp' = UploadResponse("updateLesson", l, 200, queueUp)
  /\ UNCHANGED <<enroll, role, granted, calc>>

\* updateLesson without a file: the basic fields only
UpdateLesson(l, preview) ==
  /\ lessons[l].row = "live"
  /\ lessons[l].is_preview # preview
  /\ lessons' = [lessons EXCEPT ![l].is_preview = preview]
  /\ resp' = NoResp
  /\ UNCHANGED <<rawFiles, hls, uploads, jobs, waitList, enroll, role, granted, calc>>

\* deleteLesson: the file the row names is unlinked, the row destroyed
DeleteLesson(l) ==
  /\ lessons[l].row = "live"
  /\ rawFiles' = RawAfterDelete(lessons[l].video_url)
  /\ hls' = HlsAfterDelete(lessons[l].video_url)
  /\ lessons' = [lessons EXCEPT ![l] = [NoLesson EXCEPT !.row = "deleted"]]
  /\ resp' = NoResp
  /\ UNCHANGED <<uploads, jobs, waitList, enroll, role, granted, calc>>

(***************************************************************************)
(* The worker (videoWorker) and the pipeline (processToHLS).               *)
(***************************************************************************)
\* The worker takes the head of the wait list while fewer than
\* `concurrency` jobs are active, and the handler runs up to ffmpeg's run():
\* output folder made, fresh key written over enc.key, enc.keyinfo written.
WorkerStart ==
  /\ waitList # <<>>
  /\ Cardinality(ActiveJobs) < Concurrency
  /\ LET j == Head(waitList)
         l == jobs[j].lessonId
         k == FreshKey(j, jobs[j].attemptsMade)
     IN /\ jobs' = [jobs EXCEPT ![j].state = "active", ![j].pc = "spawned",
                                ![j].key = k]
        /\ hls' = [hls EXCEPT ![l].key = k, ![l].keyLen = KeyLen,
                              ![l].keyinfo = TRUE]
  /\ waitList' = Tail(waitList)
  /\ resp' = NoResp
  /\ UNCHANGED <<lessons, rawFiles, uploads, enroll, role, granted, calc>>

\* ffmpeg opened its input and the key-info file and writes segments and the
\* growing (event) playlist
FfmpegProgress(j) ==
  /\ j \in ActiveJobs
  /\ jobs[j].pc = "spawned"
  /\ jobs[j].inputPath \in rawFiles
  /\ hls[jobs[j].lessonId].keyinfo
  /\ jobs' = [jobs EXCEPT ![j].pc = "running"]
  /\ hls' = [hls EXCEPT ![jobs[j].lessonId].playlist = "partial",
                        ![jobs[j].lessonId].segKey = hls[jobs[j].lessonId].key]
  /\ resp' = NoResp
  /\ UNCHANGED <<lessons, rawFiles, uploads, waitList, enroll, role, granted, calc>>

\* an 'end' handler that leaves the raw input where it is
FfmpegEndKeepsInput(j) ==
  /\ j \in ActiveJobs
  /\ jobs[j].pc = "running"
  /\ jobs' = [jobs EXCEPT ![j].pc = "encoded",
                          ![j].hlsUrl = HlsUrl(jobs[j].lessonId)]
  /\ hls' = [hls EXCEPT ![jobs[j].lessonId].playlist = "complete",
                        ![jobs[j].lessonId].keyinfo = FALSE]
  /\ resp' = NoResp
  /\ UNCHANGED <<lessons, rawFiles, uploads, waitList, enroll, role, granted,
                 calc>>

\* ffmpeg 'end': key-info unlinked, the raw input unlinked, the promise
\* resolves to the playlist's relative path (hlsUrl in the handler)
FfmpegEnd(j) ==
  /\ j \in ActiveJobs
  /\ jobs[j].pc = "running"
  /\ jobs' = [jobs EXCEPT ![j].pc = "encoded",
                          ![j].hlsUrl = HlsUrl(jobs[j].lessonId)]
  /\ hls' = [hls EXCEPT ![jobs[j].lessonId].playlist = "complete",
                        ![jobs[j].lessonId].keyinfo = FALSE]
  /\ rawFiles' = rawFiles \ {jobs[j].inputPath}
  /\ resp' = NoResp
  /\ UNCHANGED <<lessons, uploads, waitList, enroll, role, granted, calc>>

\* an 'error' handler that unlinks the input as the 'end' handler does
FfmpegErrorUnlinksInput(j) ==
  /\ j \in ActiveJobs
  /\ jobs[j].pc \in {"spawned", "running"}
  /\ jobs' = [jobs EXCEPT ![j] = MoveToFailed(jobs[j])]
  /\ rawFiles' = rawFiles \ {jobs[j].inputPath}
  /\ resp' = NoResp
  /\ UNCHANGED <<lessons, hls, uploads, waitList, enroll, role, granted, calc>>

\* ffmpeg 'error': the promise rejects, the handler logs and re-throws, the
\* queue applies its retry policy
FfmpegError(j) ==
  /\ j \in ActiveJobs
  /\ jobs[j].pc \in {"spawned", "running"}
  /\ jobs' = [jobs EXCEPT ![j] = MoveToFailed(jobs[j])]
  /\ resp' = NoResp
  /\ UNCHANGED <<lessons, rawFiles, hls, uploads, waitList, enroll, role, granted, calc>>

\* Lesson.update({video_url: hlsUrl}, {where: {id: lessonId}}) and the
\* handler's return: the job completes and is removed from the queue
WorkerRecord(j) ==
  /\ j \in ActiveJobs
  /\ jobs[j].pc = "encoded"
  /\ lessons' = IF lessons[jobs[j].lessonId].row = "live"
                THEN [lessons EXCEPT ![jobs[j].lessonId].video_url =
                                         jobs[j].hlsUrl]
                ELSE lessons
  /\ jobs' = [jobs EXCEPT ![j] = [NewJob(jobs[j].lessonId, jobs[j].inputPath)
                                     EXCEPT !.state = "completed"]]
  /\ resp' = NoResp
  /\ UNCHANGED <<rawFiles, hls, uploads, waitList, enroll, role, granted, calc>>

\* Lesson.update rejects (database error): the handler re-throws
WorkerRecordFails(j) ==
  /\ j \in ActiveJobs
  /\ jobs[j].pc = "encoded"
  /\ jobs' = [jobs EXCEPT ![j] = MoveToFailed(jobs[j])]
  /\ resp' = NoResp
  /\ UNCHANGED <<lessons, rawFiles, hls, uploads, waitList, enroll, role, granted, calc>>

\* one second passes for the delayed jobs
Tick ==
  /\ \E j \in JobIds : /\ jobs[j].state = "delayed"
                       /\ jobs[j].waited < Backoff(jobs[j].attemptsMade)
  /\ jobs' = [j \in JobIds |->
                IF /\ jobs[j].state = "delayed"
                   /\ jobs[j].waited < Backoff(jobs[j].attemptsMade)
                THEN [jobs[j] EXCEPT !.waited = @ + 1]
                ELSE jobs[j]]
  /\ resp' = NoResp
  /\ UNCHANGED <<lessons, rawFiles, hls, uploads, waitList, enroll, role, granted, calc>>

\* a delayed job whose backoff has elapsed goes back to the wait list
Promote(j) ==
  /\ j \in JobIds
  /\ jobs[j].state = "delayed"
  /\ jobs[j].waited >= Backoff(jobs[j].attemptsMade)
  /\ jobs' = [jobs EXCEPT ![j].state = "wait"]
  /\ waitList' = Append(waitList, j)
  /\ resp' = NoResp
  /\ UNCHANGED <<lessons, rawFiles, hls, uploads, enroll, role, granted, calc>>

(***************************************************************************)
(* Users and enrollments (adminController, paymentController).             *)
(***************************************************************************)
\* initiateManualPayment for a paid course: students only; refused when an
\* enrollment row of the user for the course exists (completed or pending
\* by the handler's check, any other by the unique index)
InitiateManualPayment(u, c) ==
  /\ role[u] = "student"
  /\ enroll[u][c] = "none"
  /\ enroll' = [enroll EXCEPT ![u][c] = "pending"]
  /\ resp' = NoResp
  /\ UNCHANGED <<lessons, rawFiles, hls, uploads, jobs, waitList, role, granted, calc>>

\* verifyEnrollment: an admin sets payment_status of an existing enrollment
VerifyEnrollment(u, c, status) ==
  /\ enroll[u][c] # "none"
  /\ enroll[u][c] # status
  /\ enroll' = [enroll EXCEPT ![u][c] = status]
  /\ resp' = NoResp
  /\ UNCHANGED <<lessons, rawFiles, hls, uploads, jobs, waitList, role, granted, calc>>

\* updateUser with role 'admin': a user is made an admin (an admin's role
\* cannot be changed back)
UpdateUser(u) ==
  /\ role[u] = "student"
  /\ role' = [role EXCEPT ![u] = "admin"]
  /\ resp' = NoResp
  /\ UNCHANGED <<lessons, rawFiles, hls, uploads, jobs, waitList, enroll, granted, calc>>

(***************************************************************************)
(* The streaming gateway (courseController) and the static mounts.         *)
(***************************************************************************)
\* file names inside an output directory
DirNames == {"playlist.m3u8", "enc.key", "enc.keyinfo", "segment_000.ts"}

\* fs.existsSync(path.join(VIDEO_DIR, lessonId, name))
FileInDir(l, name) ==
  \/ name = "playlist.m3u8" /\ hls[l].playlist # "none"
  \/ name = "enc.key" /\ hls[l].key # 0
  \/ name = "enc.keyinfo" /\ hls[l].keyinfo
  \/ name = "segment_000.ts" /\ hls[l].segKey # 0

\* what a file of the uploads tree holds
FileKind(name) ==
  CASE name = "playlist.m3u8" -> "playlist"
    [] name = "enc.key" -> "key"
    [] name = "enc.keyinfo" -> "keyinfo"
    [] name = "segment_000.ts" -> "segment"
    [] OTHER -> "raw"

IsGuest(v) == v = "guest"
\* the role compared with a name no user has
IsAdminWrongRole(v) == v \in Users /\ role[v] = "administrator"

IsAdmin(v) == v \in Users /\ role[v] = "admin"

\* an enrollment lookup that also accepts pending payments
PaidOrPending(v, c) == v \in Users /\ enroll[v][c] \in {"completed", "pending"}

\* Enrollment.findOne / Enrollment.count with
\* {user_id, course_id, payment_status: 'completed'}
CompletedEnrollment(v, c) == v \in Users /\ enroll[v][c] = "completed"

\* an access check that turns guests away before it looks at the preview flag
StreamAccessGuestFirst(v, l) ==
  IF IsGuest(v) THEN 401
  ELSE IF ~IsAdmin(v) /\ ~lessons[l].is_preview
            /\ ~(v \in Users /\ enroll[v][CourseOf(l)] = "completed")
       THEN 403 ELSE 0

\* the access check of streamLessonVideo: 0 when it lets the request pass
StreamAccess(v, l) ==
  IF ~IsAdmin(v) /\ ~lessons[l].is_preview
  THEN IF IsGuest(v) THEN 401
       ELSE IF ~CompletedEnrollment(v, CourseOf(l)) THEN 403 ELSE 0
  ELSE 0

\* the access check of getLessonVideoKey
KeyAccess(v, l) ==
  IF ~IsAdmin(v) /\ ~lessons[l].is_preview
  THEN IF IsGuest(v) THEN 401
       ELSE IF ~CompletedEnrollment(v, CourseOf(l)) THEN 403 ELSE 0
  ELSE 0

\* an access check that remembers the grant of the manifest request
SegmentAccessMemo(v, l) ==
  IF <<v, l>> \in granted THEN 0
  ELSE IF ~IsAdmin(v) /\ ~lessons[l].is_preview
       THEN IF IsGuest(v) THEN 401
            ELSE IF ~(v \in Users /\ enroll[v][CourseOf(l)] = "completed")
                 THEN 403 ELSE 0
       ELSE 0

\* the access check of streamHLSSegment
SegmentAccess(v, l) ==
  IF ~IsAdmin(v) /\ ~lessons[l].is_preview
  THEN IF IsGuest(v) THEN 401
       ELSE IF ~CompletedEnrollment(v, CourseOf(l)) THEN 403 ELSE 0
  ELSE 0

Response(ep, v, l, name, status, body) ==
  [ep |-> ep, viewer |-> v, lesson |-> l, name |-> name, dir |-> "-",
   key |-> 0, len |-> 0, status |-> status, body |-> body]

\* getLessonKey: the content of enc.key (which key, how many bytes), or null
GetLessonKey(l) ==
  IF hls[l].key = 0 THEN [key |-> 0, len |-> 0]
  ELSE [key |-> hls[l].key, len |-> hls[l].keyLen]

\* GET /api/v1/courses/video/:lessonId; range: a Range header is present
StreamLessonVideoResponse(v, l, range) ==
  LET url == lessons[l].video_url
      R(status, body) == Response("manifest", v, l, "-", status, body)
  IN IF lessons[l].row # "live" THEN R(404, "-")
     ELSE IF StreamAccess(v, l) # 0 THEN R(StreamAccess(v, l), "-")
     ELSE IF url.kind = "null" THEN R(404, "-")
     ELSE IF ~UrlExists(url) THEN R(404, "-")
     ELSE IF url.kind = "hls" THEN R(200, "playlist")
     ELSE IF range THEN R(206, "raw")
     ELSE R(200, "raw")

\* a key handler that looks for the key file before it checks access
GetLessonVideoKeyResponseFileFirst(v, l) ==
  LET R(status, body) == Response("key", v, l, "-", status, body)
  IN IF lessons[l].row # "live" THEN R(404, "-")
     ELSE IF GetLessonKey(l).key = 0 THEN R(404, "-")
     ELSE IF KeyAccess(v, l) # 0 THEN R(KeyAccess(v, l), "-")
     ELSE [R(200, "key") EXCEPT !.key = GetLessonKey(l).key,
                                !.len = GetLessonKey(l).len]

\* GET /api/v1/courses/video/key/:lessonId
GetLessonVideoKeyResponse(v, l) ==
  LET R(status, body) == Response("key", v, l, "-", status, body)
  IN IF lessons[l].row # "live" THEN R(404, "-")
     ELSE IF KeyAccess(v, l) # 0 THEN R(KeyAccess(v, l), "-")
     ELSE IF GetLessonKey(l).key = 0 THEN R(404, "-")
     ELSE [R(200, "key") EXCEPT !.key = GetLessonKey(l).key,
                                !.len = GetLessonKey(l).len]

\* req.params.segmentName as path.join takes it apart: the router decodes
\* the parameter (%2F is "/"), so a name can have several components
Components(name) ==
  CASE name = "../L1/enc.key" -> <<"..", "L1", "enc.key">>
    [] name = "../L2/enc.key" -> <<"..", "L2", "enc.key">>
    [] name = "../L2/segment_000.ts" -> <<"..", "L2", "segment_000.ts">>
    [] OTHER -> <<name>>

\* path.join: ".." takes the last component away, any other is added
RECURSIVE Normalize(_, _)
Normalize(stack, comps) ==
  IF comps = <<>> THEN stack
  ELSE IF Head(comps) = ".." /\ stack # <<>> /\ stack[Len(stack)] # ".."
       THEN Normalize(SubSeq(stack, 1, Len(stack) - 1), Tail(comps))
       ELSE Normalize(Append(stack, Head(comps)), Tail(comps))

\* path.join(process.cwd(), 'public/uploads/videos', lessonId, segmentName),
\* below public/uploads/videos
SegmentPath(l, name) == Normalize(<<l>>, Components(name))

\* fs.existsSync(segmentPath), for the files of the output directories
PathExists(p) ==
  /\ Len(p) = 2
  /\ p[1] \in LessonIds
  /\ p[2] \in DirNames
  /\ FileInDir(p[1], p[2])

\* GET /api/v1/courses/video/segment/:lessonId/:segmentName
StreamHLSSegmentResponse(v, l, name) ==
  LET R(status, body) == Response("segment", v, l, name, status, body)
      p == SegmentPath(l, name)
  IN IF lessons[l].row # "live" THEN R(404, "-")
     ELSE IF SegmentAccess(v, l) # 0 THEN R(SegmentAccess(v, l), "-")
     ELSE IF ~PathExists(p) THEN R(404, "-")
     ELSE [R(200, FileKind(p[2])) EXCEPT !.dir = p[1]]

\* express.static('public') and the /uploads mount: a file of the uploads
\* tree is sent to whoever asks for its path; name "raw" stands for the raw
\* upload the row of l names, the other names for files of l's directory
ServeStaticResponse(v, l, name) ==
  LET url == lessons[l].video_url
      there == IF name = "raw" THEN url.kind = "raw" /\ url.raw \in rawFiles
               ELSE FileInDir(l, name)
  IN IF there THEN Response("static", v, l, name, 200, FileKind(name))
     ELSE Response("static", v, l, name, 404, "-")

Success(r) == r.status \in {200, 206}

\* the viewers whose history `granted` keeps
Watched == {"guest", "u1"}

\* a gateway that drops the recorded location of a lesson whose file it
\* did not find
GatewayForgetting(r) ==
  /\ resp' = r
  /\ granted' = IF r.ep = "manifest" /\ Success(r) /\ r.viewer \in Watched
                THEN granted \cup {<<r.viewer, r.lesson>>}
                ELSE granted
  /\ lessons' = IF r.status = 404 /\ r.lesson \in LessonIds
                   /\ lessons[r.lesson].row = "live"
                THEN [lessons EXCEPT ![r.lesson].video_url = NoUrl]
                ELSE lessons
  /\ UNCHANGED <<rawFiles, hls, uploads, jobs, waitList, enroll, role, calc>>

Gateway(r) ==
  /\ resp' = r
  /\ granted' = IF r.ep = "manifest" /\ Success(r) /\ r.viewer \in Watched
                THEN granted \cup {<<r.viewer, r.lesson>>}
                ELSE granted
  /\ UNCHANGED <<lessons, rawFiles, hls, uploads, jobs, waitList, enroll, role,
                 calc>>

StreamLessonVideo(v, l, range) == Gateway(StreamLessonVideoResponse(v, l, range))

GetLessonVideoKey(v, l) == Gateway(GetLessonVideoKeyResponse(v, l))

StreamHLSSegment(v, l, name) == Gateway(StreamHLSSegmentResponse(v, l, name))

ServeStatic(v, l, name) == Gateway(ServeStaticResponse(v, l, name))

(***************************************************************************)
(* The manifest branch of streamLessonVideo, on the text of the playlist.  *)
(* A text is a sequence of characters.  The characters the handler tells   *)
(* apart are kept; a run of text it treats as ordinary characters is one   *)
(* character here:                                                         *)
(*   "U"  the text URI=          "q"  a double quote                       *)
(*   "K"  the text EXT-X-KEY     "#"  "/"  themselves                      *)
(*   "s"  a space                "r"  carriage return   "n"  line feed     *)
(*   "a"  any other character                                              *)
(*   "k"  the text key           "g"  the text segment                     *)
(* and a lesson id is one character too (it is a UUID).                    *)
(***************************************************************************)
\* longest playlist text read from disk
MaxLen == 4

Chars == {"U", "q", "K", "#", "/", "s", "r", "n", "a"}

\* what String.prototype.trim removes
White == {"s", "r", "n"}

\* the texts of at most n characters
TextsUpTo(n) == UNION {[1..k -> Chars] : k \in 0..n}

\* `URI="key/${lessonId}"`
KeyUri(l) == <<"U", "q", "k", "/", l, "q">>

\* `segment/${lessonId}/`
SegmentPrefix(l) == <<"g", "/", l, "/">>

\* content.replace(/URI="([^"]*)"/g, `URI="key/${lessonId}"`): every
\* leftmost match, scanning on after the closing quote
RECURSIVE ReplaceURI(_, _)
ReplaceURI(c, l) ==
  IF c = <<>> THEN <<>>
  ELSE IF /\ Len(c) >= 3
          /\ c[1] = "U"
          /\ c[2] = "q"
          /\ \E j \in 3..Len(c) : c[j] = "q"
       THEN LET close == CHOOSE j \in 3..Len(c) :
                           /\ c[j] = "q"
                           /\ \A i \in 3..(j - 1) : c[i] # "q"
            IN KeyUri(l) \o ReplaceURI(SubSeq(c, close + 1, Len(c)), l)
       ELSE <<c[1]>> \o ReplaceURI(Tail(c), l)

\* content.split(/\r?\n/)
RECURSIVE Split(_)
Split(c) ==
  IF \A i \in 1..Len(c) : c[i] # "n" THEN <<c>>
  ELSE LET lf == CHOOSE j \in 1..Len(c) :
                   /\ c[j] = "n"
                   /\ \A i \in 1..(j - 1) : c[i] # "n"
           last == IF lf > 1 /\ c[lf - 1] = "r" THEN lf - 2 ELSE lf - 1
       IN <<SubSeq(c, 1, last)>> \o Split(SubSeq(c, lf + 1, Len(c)))

RECURSIVE TrimStart(_)
TrimStart(t) ==
  IF t # <<>> /\ Head(t) \in White THEN TrimStart(Tail(t)) ELSE t

RECURSIVE TrimEnd(_)
TrimEnd(t) ==
  IF t # <<>> /\ t[Len(t)] \in White
  THEN TrimEnd(SubSeq(t, 1, Len(t) - 1)) ELSE t

\* String.prototype.trim
Trim(t) == TrimEnd(TrimStart(t))

\* trimmed.split('/').pop()
LastPart(t) ==
  LET slashes == {i \in 1..Len(t) : t[i] = "/"}
  IN IF slashes = {} THEN t
     ELSE SubSeq(t, (CHOOSE i \in slashes : \A k \in slashes : k <= i) + 1,
                 Len(t))

\* the callback of lines.map
PatchLine(line, l) ==
  LET trimmed == Trim(line)
  IN IF trimmed # <<>> /\ Head(trimmed) # "#"
     THEN SegmentPrefix(l) \o Trim(LastPart(trimmed))
     ELSE line

\* patchedLines.join('\n')
RECURSIVE Join(_)
Join(ls) ==
  IF Len(ls) = 0 THEN <<>>
  ELSE IF Len(ls) = 1 THEN ls[1]
  ELSE ls[1] \o <<"n">> \o Join(Tail(ls))

\* the try block: replace, split, map, join
PatchManifest(c, l) ==
  LET lines == Split(ReplaceURI(c, l))
  IN Join([i \in 1..Len(lines) |-> PatchLine(lines[i], l)])

\* a manifest request that has passed the access check and found the file
PlaylistRequest(l, c) ==
  [fn |-> "playlist", lessonId |-> l, stage |-> "file", content |-> c,
   threw |-> FALSE, status |-> 0, first |-> <<>>, body |-> <<>>]

\* the catch block answers a server error instead of the file
ServePlaylistFailing(throws) ==
  /\ calc.fn = "playlist"
  /\ calc.stage = "file"
  /\ calc' = [calc EXCEPT
       !.stage = "sent",
       !.threw = throws,
       !.status = IF throws THEN 500 ELSE 200,
       !.first = IF throws THEN <<>>
                 ELSE PatchManifest(calc.content, calc.lessonId),
       !.body = IF throws THEN <<>>
                ELSE PatchManifest(calc.content, calc.lessonId)]
  /\ UNCHANGED <<lessons, rawFiles, hls, uploads, jobs, waitList, enroll, role,
                 resp, granted>>

\* the manifest branch; throws: readFileSync or the patching throws, and
\* the catch block pipes the file as it is on disk
ServePlaylist(throws) ==
  /\ calc.fn = "playlist"
  /\ calc.stage = "file"
  /\ calc' = [calc EXCEPT
       !.stage = "sent",
       !.threw = throws,
       !.status = 200,
       !.first = IF throws THEN calc.content
                 ELSE PatchManifest(calc.content, calc.lessonId),
       !.body = IF throws THEN calc.content
                ELSE PatchManifest(calc.content, calc.lessonId)]
  /\ UNCHANGED <<lessons, rawFiles, hls, uploads, jobs, waitList, enroll, role,
                 resp, granted>>

\* the text the gateway sent is patched again
Repatch ==
  /\ calc.fn = "playlist"
  /\ calc.stage = "sent"
  /\ ~calc.threw
  /\ calc' = [calc EXCEPT
       !.stage = "resent",
       !.body = PatchManifest(calc.body, calc.lessonId)]
  /\ UNCHANGED <<lessons, rawFiles, hls, uploads, jobs, waitList, enroll, role,
                 resp, granted>>

(***************************************************************************)
(* The progressive branch of streamLessonVideo, on the Range header.       *)
(* The header is taken after range.replace(/bytes=/, "").split("-"): a     *)
(* sequence of parts, each a text of decimal digits and other characters   *)
(* ("x").  A number that may be NaN is [nan |-> BOOLEAN, n |-> Int]; the   *)
(* bytes of the file are named by their positions 0..T-1.                  *)
(***************************************************************************)
\* longest file served, in bytes
MaxFileLen == 12

Digits == {"0", "1", "2", "5"}
PartChars == Digits \cup {"x"}

DigitVal(d) == CASE d = "0" -> 0 [] d = "1" -> 1 [] d = "2" -> 2 [] d = "5" -> 5

\* the parts of a header: none, digits, digits with other characters
Parts == UNION {[1..k -> PartChars] : k \in 0..2}

\* req.headers.range split at "-": no header, or one or two parts
NoRange == <<>>
RangeHeaders == {NoRange} \cup {<<p>> : p \in Parts}
                  \cup {<<p, q>> : p \in Parts, q \in Parts}

NaN == [nan |-> TRUE, n |-> 0]
Num(n) == [nan |-> FALSE, n |-> n]

\* the leading decimal digits of p, read as a number, after acc
RECURSIVE LeadingDigits(_, _)
LeadingDigits(p, acc) ==
  IF p = <<>> \/ Head(p) \notin Digits THEN acc
  ELSE LeadingDigits(Tail(p), acc * 10 + DigitVal(Head(p)))

\* parseInt(p, 10)
ParseInt(p) ==
  IF p = <<>> \/ Head(p) \notin Digits THEN NaN
  ELSE Num(LeadingDigits(p, 0))

\* chunksize taken as end - start
ChunkSizeShort(start, end) ==
  IF start.nan \/ end.nan THEN NaN ELSE Num(end.n - start.n)

\* (end - start) + 1
ChunkSize(start, end) ==
  IF start.nan \/ end.nan THEN NaN ELSE Num((end.n - start.n) + 1)

\* the bytes a stream sends: positions from..to, none when to < from
Bytes(from, to) == [from |-> from, to |-> to]
NoBytes == Bytes(0, 0 - 1)

\* fs.createReadStream(absolutePath, {start, end}) refuses its options
StreamThrows(start, end) == start.nan \/ end.nan \/ start.n > end.n

\* what the stream reads of a file of T bytes
StreamBytes(start, end, T) ==
  IF start.n > T - 1 THEN NoBytes
  ELSE Bytes(start.n, IF end.n > T - 1 THEN T - 1 ELSE end.n)

\* a request for a raw file of T bytes that has passed the access check
RangeRequest(T, h) ==
  [fn |-> "range", stage |-> "request", fileSize |-> T, range |-> h,
   status |-> 0, contentRange |-> <<>>, acceptRanges |-> FALSE,
   contentLength |-> NaN, body |-> NoBytes]

\* lines 363-403: statSync, the header parsed, the stream opened, the head
\* written; a throw goes to next(error) and the error handler answers 500
StreamFileResult(c) ==
  LET T == c.fileSize
      parts == c.range
      start == ParseInt(parts[1])
      end == IF Len(parts) >= 2 /\ parts[2] # <<>> THEN ParseInt(parts[2])
             ELSE Num(T - 1)
  IN IF parts = NoRange
     THEN [c EXCEPT !.stage = "sent", !.status = 200,
                    !.contentLength = Num(T), !.body = Bytes(0, T - 1)]
     ELSE IF StreamThrows(start, end)
     THEN [c EXCEPT !.stage = "sent", !.status = 500]
     ELSE [c EXCEPT !.stage = "sent", !.status = 206,
                    !.contentRange = <<start.n, end.n, T>>,
                    !.acceptRanges = TRUE,
                    !.contentLength = ChunkSize(start, end),
                    !.body = StreamBytes(start, end, T)]

StreamFile ==
  /\ calc.fn = "range"
  /\ calc.stage = "request"
  /\ calc' = StreamFileResult(calc)
  /\ UNCHANGED <<lessons, rawFiles, hls, uploads, jobs, waitList, enroll, role,
                 resp, granted>>

\* everything but the request followed
InitStore ==
  /\ lessons = [l \in LessonIds |-> NoLesson]
  /\ rawFiles = {}
  /\ hls = [l \in LessonIds |-> NoDir]
  /\ uploads = 0
  /\ jobs = <<>>
  /\ waitList = <<>>
  /\ enroll = [u \in Users |-> [c \in Courses |-> "none"]]
  /\ role = [u \in Users |-> "student"]
  /\ resp = NoResp
  /\ granted = {}

Init ==
  /\ InitStore
  /\ calc = NoCalc

Next ==
  \/ \E l \in LessonIds, q \in BOOLEAN : AddLesson(l, FALSE, q)
  \/ \E l \in LessonIds, q \in BOOLEAN : UpdateLessonVideo(l, FALSE, q)
  \/ \E l \in LessonIds : DeleteLesson(l)
  \/ WorkerStart
  \/ \E j \in JobIds : FfmpegProgress(j)
  \/ \E j \in JobIds : FfmpegEnd(j)
  \/ \E j \in JobIds : FfmpegError(j)
  \/ \E j \in JobIds : WorkerRecord(j)
  \/ \E j \in JobIds : WorkerRecordFails(j)
  \/ Tick
  \/ \E j \in JobIds : Promote(j)

Spec == Init /\ [][Next]_vars

\* segment names the viewers ask the segment endpoint for
SegmentNames == {"segment_000.ts"}

\* the lesson the gateway specification uploads; the other lesson id has no
\* row, so that requests for it are requests for an unknown asset
Uploaded == {"L1"}

\* the gateway at work: an upload and its encoding, enrollment bookkeeping,
\* and the viewers' requests
NextGateway ==
  \/ \E l \in Uploaded, p \in BOOLEAN : AddLesson(l, p, TRUE)
  \/ \E l \in Uploaded, p \in BOOLEAN : UpdateLesson(l, p)
  \/ \E l \in Uploaded : DeleteLesson(l)
  \/ WorkerStart
  \/ \E j \in JobIds : FfmpegProgress(j)
  \/ \E j \in JobIds : FfmpegEnd(j)
  \/ \E j \in JobIds : WorkerRecord(j)
  \/ \E c \in Courses : InitiateManualPayment("u1", c)
  \/ InitiateManualPayment("u2", "c1")
  \/ \E st \in {"completed", "failed"} : VerifyEnrollment("u1", "c1", st)
  \/ VerifyEnrollment("u1", "c2", "completed")
  \/ UpdateUser("u2")
  \/ \E v \in Viewers, l \in LessonIds, range \in BOOLEAN :
        StreamLessonVideo(v, l, range)
  \/ \E v \in Viewers, l \in LessonIds : GetLessonVideoKey(v, l)
  \/ \E v \in Viewers, l \in LessonIds, name \in SegmentNames :
        StreamHLSSegment(v, l, name)
  \/ \E l \in Uploaded, name \in DirNames \cup {"raw"} :
        ServeStatic("guest", l, name)

SpecGateway == Init /\ [][NextGateway]_vars

(***************************************************************************)
(* The segment endpoint with two transcoded lessons: a guest asks for      *)
(* files by name, plain and with a path in the name.                       *)
(***************************************************************************)
SegmentParams ==
  {"segment_000.ts", "enc.key", "../L1/enc.key", "../L2/enc.key",
   "../L2/segment_000.ts"}

NextSegment ==
  \/ \E l \in LessonIds, p \in BOOLEAN : AddLesson(l, p, TRUE)
  \/ WorkerStart
  \/ \E j \in JobIds : FfmpegProgress(j)
  \/ \E j \in JobIds : FfmpegEnd(j)
  \/ \E j \in JobIds : WorkerRecord(j)
  \/ \E l \in LessonIds, name \in SegmentParams :
       StreamHLSSegment("guest", l, name)

SpecSegment == Init /\ [][NextSegment]_vars

(***************************************************************************)
(* One preview lesson, uploaded and uploaded again, its jobs with their    *)
(* failures and retries, and a guest who asks for the manifest.            *)
(***************************************************************************)
NextViewer ==
  \/ AddLesson("L1", TRUE, TRUE)
  \/ UpdateLessonVideo("L1", TRUE, TRUE)
  \/ WorkerStart
  \/ \E j \in JobIds : FfmpegProgress(j)
  \/ \E j \in JobIds : FfmpegEnd(j)
  \/ \E j \in JobIds : FfmpegError(j)
  \/ \E j \in JobIds : WorkerRecord(j)
  \/ Tick
  \/ \E j \in JobIds : Promote(j)
  \/ StreamLessonVideo("guest", "L1", FALSE)

SpecViewer == Init /\ [][NextViewer]_vars

(***************************************************************************)
(* The manifest branch alone: one manifest request per behaviour, for      *)
(* every playlist text of at most MaxLen characters.                       *)
(***************************************************************************)
InitPatch ==
  /\ InitStore
  /\ calc \in {PlaylistRequest(l, c) : l \in LessonIds, c \in TextsUpTo(MaxLen)}

NextPatch ==
  \/ \E throws \in BOOLEAN : ServePlaylist(throws)
  \/ Repatch

SpecPatch == InitPatch /\ [][NextPatch]_vars

(***************************************************************************)
(* The progressive branch alone: one request per behaviour, for every file *)
(* length up to MaxFileLen and every header.                               *)
(***************************************************************************)
InitRange ==
  /\ InitStore
  /\ calc \in {RangeRequest(T, h) : T \in 1..MaxFileLen, h \in RangeHeaders}

NextRange == StreamFile

SpecRange == InitRange /\ [][NextRange]_vars

(***************************************************************************)
(* Properties of the queue and the worker, checked under Spec.             *)
(***************************************************************************)
\* jobs whose encoder has been started and has not finished
Encoding == {j \in JobIds : jobs[j].state = "active"
                            /\ jobs[j].pc \in {"spawned", "running"}}

JobsOf(l) == {j \in JobIds : jobs[j].lessonId = l}

\* C1: in every reachable state at most one job is being run by the worker
\* (and so at most one encoder is running), however many jobs were enqueued
\* and whenever, several for one asset included.
C1_AtMostOneTranscode ==
  /\ Cardinality(ActiveJobs) <= 1
  /\ Cardinality(Encoding) <= 1

\* an encoder runs for an asset while another job of the same asset waits in
\* its retry backoff
C1_Witness ==
  \E j1 \in Encoding : \E j2 \in JobIds :
    /\ j1 # j2
    /\ jobs[j2].state = "delayed"
    /\ jobs[j2].lessonId = jobs[j1].lessonId

\* C7: once the queue is done with a job (handler succeeded, or all delivery
\* attempts failed) the asset's status is ready after success and failed
\* after retry exhaustion. Stated for an asset that has had one job.
C7_TerminalStatus ==
  \A j \in JobIds :
    LET l == jobs[j].lessonId IN
    (lessons[l].row = "live" /\ JobsOf(l) = {j}) =>
      /\ jobs[j].state = "completed" =>
           lessons[l].video_processing_status = "ready"
      /\ jobs[j].state = "failed" =>
           lessons[l].video_processing_status = "failed"

\* C8: an asset created by an accepted upload is pending until a worker
\* claims its job, and is processing exactly while a worker has claimed its
\* job.
C8_StatusLifecycle ==
  \A l \in LessonIds :
    lessons[l].row = "live" =>
      /\ (JobsOf(l) # {} /\ \A j \in JobsOf(l) :
              jobs[j].state = "wait" /\ jobs[j].attemptsMade = 0)
           => lessons[l].video_processing_status = "pending"
      /\ (\E j \in JobsOf(l) : jobs[j].state = "active")
           <=> lessons[l].video_processing_status = "processing"

\* deliveries of a job to the handler so far
Deliveries(j) ==
  jobs[j].attemptsMade + (IF jobs[j].state = "active" THEN 1 ELSE 0)

\* C9: a job is delivered to the handler at most 3 times; a job whose third
\* attempt failed is never delivered again; the retry after the first
\* failure starts no sooner than 1 second after it, the retry after the
\* second no sooner than 2 seconds after it.
C9_BoundedRetries ==
  /\ [](\A j \in JobIds :
          /\ Deliveries(j) <= 3
          /\ (jobs[j].state \in {"wait", "active"} /\ jobs[j].attemptsMade = 1)
               => jobs[j].waited >= 1
          /\ (jobs[j].state \in {"wait", "active"} /\ jobs[j].attemptsMade = 2)
               => jobs[j].waited >= 2
          /\ jobs[j].state = "delayed" => jobs[j].attemptsMade \in {1, 2})
  /\ [][\A j \in JobIds : jobs[j].state = "failed" => jobs'[j] = jobs[j]]_vars

\* a job's third delivery is running, after its two backoffs
C9_Witness ==
  \E j \in JobIds :
    /\ jobs[j].state = "active"
    /\ jobs[j].attemptsMade = 2
    /\ jobs[j].waited = 2

\* C10: when all 3 delivery attempts of a job have failed, the asset has
\* status failed and a non-empty error message, and the job is still in the
\* queue (in its failed set).
C10_FailureRecorded ==
  \A j \in JobIds :
    LET l == jobs[j].lessonId IN
    (jobs[j].attemptsMade = 3 /\ lessons[l].row = "live") =>
      /\ jobs[j].state = "failed"
      /\ lessons[l].video_processing_status = "failed"
      /\ lessons[l].video_processing_error # ""

(***************************************************************************)
(* Properties of the gateway, checked under SpecGateway.  Every step other *)
(* than a request clears resp, so resp, when set, is the answer to a       *)
(* request made in the current state.                                      *)
(***************************************************************************)
Protected == {"manifest", "key", "segment"}

\* the authorization policy for a non-preview asset: admin, or authenticated
\* with a completed enrollment in the owning course
PolicyPasses(v, l) ==
  \/ v \in Users /\ role[v] = "admin"
  \/ v \in Users /\ enroll[v][CourseOf(l)] = "completed"

\* C2: no protected content (manifest, key, segment, raw video) of a
\* non-preview asset is released by any route unless the policy passes for
\* the viewer and the asset on that request.
C2_NoUnauthorizedRelease ==
  ( /\ Success(resp)
    /\ resp.body \in {"playlist", "key", "segment", "raw"}
    /\ lessons[resp.lesson].row = "live"
    /\ ~lessons[resp.lesson].is_preview )
  => PolicyPasses(resp.viewer, resp.lesson)

\* the row of the asset names a manifest that is on disk
ManifestExists(l) ==
  /\ lessons[l].row = "live"
  /\ lessons[l].video_url.kind = "hls"
  /\ hls[l].playlist # "none"

\* C3: for an existing asset whose manifest exists, a manifest request
\* without an authenticated viewer is answered 401 when the asset is not a
\* preview and 200 when it is; a preview asset's manifest is answered 200
\* for every authenticated viewer too, whatever their enrollment.
C3_PreviewAndAnonymous ==
  (resp.ep = "manifest" /\ ManifestExists(resp.lesson)) =>
    /\ (resp.viewer = "guest" /\ ~lessons[resp.lesson].is_preview)
         => resp.status = 401
    /\ lessons[resp.lesson].is_preview => resp.status = 200

\* an anonymous viewer was sent the manifest of a preview asset
C3_Witness ==
  /\ resp.ep = "manifest"
  /\ ManifestExists(resp.lesson)
  /\ resp.viewer = "guest"
  /\ lessons[resp.lesson].is_preview
  /\ resp.status = 200
  /\ resp.body = "playlist"

\* the file a request asks for is on disk
RequestedFileExists(r) ==
  CASE r.ep = "manifest" -> UrlExists(lessons[r.lesson].video_url)
    [] r.ep = "key" -> hls[r.lesson].key # 0
    [] r.ep = "segment" -> FileInDir(r.lesson, r.name)
    [] OTHER -> FALSE

\* C4: for a non-preview asset and an authenticated viewer who is no admin,
\* the manifest, key and segment endpoints answer 403 when the viewer has no
\* enrollment with payment status completed in the owning course, and answer
\* with success when the viewer has one and the requested file exists.
C4_EnrollmentGate ==
  ( /\ resp.ep \in Protected
    /\ lessons[resp.lesson].row = "live"
    /\ ~lessons[resp.lesson].is_preview
    /\ resp.viewer \in Users
    /\ role[resp.viewer] # "admin" )
  => /\ enroll[resp.viewer][CourseOf(resp.lesson)] # "completed"
          => resp.status = 403
     /\ ( /\ enroll[resp.viewer][CourseOf(resp.lesson)] = "completed"
          /\ RequestedFileExists(resp) )
          => Success(resp)

\* a viewer whose enrollment is pending was refused the key
C4_Witness ==
  /\ resp.ep = "key"
  /\ lessons[resp.lesson].row = "live"
  /\ ~lessons[resp.lesson].is_preview
  /\ resp.viewer \in Users
  /\ role[resp.viewer] # "admin"
  /\ enroll[resp.viewer][CourseOf(resp.lesson)] = "pending"
  /\ hls[resp.lesson].key # 0
  /\ resp.status = 403

\* C5: a request by an admin is never answered 401 or 403 by the manifest,
\* key or segment endpoint, whatever the preview flag and the admin's
\* enrollments.
C5_AdminBypass ==
  ( /\ resp.ep \in Protected
    /\ resp.viewer \in Users
    /\ role[resp.viewer] = "admin" )
  => resp.status \notin {401, 403}

\* an admin whose own enrollment is not completed was sent a segment of a
\* non-preview asset
C5_Witness ==
  /\ resp.ep = "segment"
  /\ resp.viewer \in Users
  /\ role[resp.viewer] = "admin"
  /\ enroll[resp.viewer][CourseOf(resp.lesson)] = "pending"
  /\ ~lessons[resp.lesson].is_preview
  /\ resp.status = 200

\* C6: the decision is recomputed on every request: a viewer who was sent
\* the manifest before, and who now has no completed enrollment for the
\* (now) non-preview asset, is answered 403 (401 when anonymous) by the
\* manifest, key and segment endpoints.
C6_NoMemoizedGrant ==
  ( /\ resp.ep \in Protected
    /\ <<resp.viewer, resp.lesson>> \in granted
    /\ lessons[resp.lesson].row = "live"
    /\ ~lessons[resp.lesson].is_preview
    /\ ~PolicyPasses(resp.viewer, resp.lesson) )
  => resp.status = (IF resp.viewer = "guest" THEN 401 ELSE 403)

\* a viewer who was sent the manifest while enrolled is refused a segment
\* after the enrollment was set to failed
C6_Witness ==
  /\ resp.ep = "segment"
  /\ <<resp.viewer, resp.lesson>> \in granted
  /\ resp.viewer \in Users
  /\ enroll[resp.viewer][CourseOf(resp.lesson)] = "failed"
  /\ ~lessons[resp.lesson].is_preview
  /\ FileInDir(resp.lesson, resp.name)
  /\ resp.status = 403

C15_EncoderSuccess ==
  /\ [][ \A j \in JobIds :
           (jobs[j].pc = "running" /\ jobs'[j].pc = "encoded") =>
             /\ hls'[jobs[j].lessonId].playlist = "complete"
             /\ hls'[jobs[j].lessonId].segKey # 0
             /\ hls'[jobs[j].lessonId].key # 0
             /\ hls'[jobs[j].lessonId].keyLen = 16
             /\ ~hls'[jobs[j].lessonId].keyinfo
             /\ jobs[j].inputPath \notin rawFiles'
             /\ jobs'[j].hlsUrl = HlsUrl(jobs[j].lessonId) ]_vars
  /\ [][ \A j \in JobIds :
           ( /\ jobs[j].pc = "encoded"
             /\ jobs'[j].state = "completed"
             /\ lessons[jobs[j].lessonId].row = "live" ) =>
             lessons'[jobs[j].lessonId].video_url = jobs[j].hlsUrl ]_vars

\* a job has completed and its lesson names the manifest the encoder left
C15_Witness ==
  \E j \in JobIds :
    /\ jobs[j].state = "completed"
    /\ lessons[jobs[j].lessonId].row = "live"
    /\ lessons[jobs[j].lessonId].video_url = HlsUrl(jobs[j].lessonId)
    /\ hls[jobs[j].lessonId].playlist = "complete"
    /\ jobs[j].inputPath \notin rawFiles

(***************************************************************************)
(* The key file and the output directory.                                  *)
(***************************************************************************)
\* C17: the key of a lesson is generated once and never changes: once a
\* key file has been written for a lesson id, no later step changes its
\* content, neither a retry of the same job nor a later job for the lesson.
C17_KeyImmutable ==
  [][ \A l \in LessonIds : hls[l].key # 0 => hls'[l].key = hls[l].key ]_vars

\* C18: after a lesson has been deleted (its jobs done), the key file and
\* the segment files produced for it are no longer on disk.
C18_DeleteRemovesKey ==
  \A l \in LessonIds :
    ( /\ lessons[l].row = "deleted"
      /\ \A j \in JobsOf(l) : jobs[j].state = "completed" ) =>
      /\ hls[l].key = 0
      /\ hls[l].segKey = 0

\* C20: in every reachable state a video lesson whose status is ready
\* (isVideoReady() is true) has its manifest on disk, its video_url naming
\* that manifest, and its raw input deleted.
C20_ReadyMeansManifest ==
  \A l \in LessonIds :
    (lessons[l].row = "live" /\ lessons[l].video_processing_status = "ready") =>
      /\ lessons[l].video_url = HlsUrl(l)
      /\ hls[l].playlist = "complete"
      /\ \A j \in JobsOf(l) : jobs[j].inputPath \notin rawFiles

(***************************************************************************)
(* Upload intake when the queue cannot be reached.                         *)
(***************************************************************************)
UploadEps == {"addLesson", "updateLesson"}

\* C14: a failure to enqueue is not fatal to the upload request: the
\* request completes successfully with the lesson created or updated, the
\* status of the lesson is left as it was, and no job is enqueued later for
\* that upload (a job only ever enters the queue in the step of the upload
\* whose file it names).
C14_EnqueueFailureNonFatal ==
  /\ [][ ( /\ uploads' = uploads + 1
           /\ resp'.ep \in UploadEps
           /\ Len(jobs') = Len(jobs) ) =>
         ( /\ resp'.status \in {200, 201}
           /\ lessons'[resp'.lesson].row = "live"
           /\ lessons'[resp'.lesson].video_url = RawUrl(uploads')
           /\ lessons[resp'.lesson].row = "live" =>
                lessons'[resp'.lesson].video_processing_status =
                  lessons[resp'.lesson].video_processing_status ) ]_vars
  /\ [][ \A j \in 1..Len(jobs') :
           j > Len(jobs) =>
             uploads' = uploads + 1 /\ jobs'[j].inputPath = uploads' ]_vars

(***************************************************************************)
(* Manifest patching.                                                      *)
(***************************************************************************)
\* C11: patching is idempotent on its output: for every playlist text and
\* lesson id, the text the gateway sent, patched again, is the same text
\* character for character.
C11_PatchIdempotent ==
  (calc.fn = "playlist" /\ calc.stage = "resent") => calc.body = calc.first

\* the lines of a manifest, CR LF and LF both ending a line
ManifestLines(c) == Split(c)

\* the lines of a patched manifest, which are joined by LF
RECURSIVE PatchedLines(_)
PatchedLines(c) ==
  IF \A i \in 1..Len(c) : c[i] # "n" THEN <<c>>
  ELSE LET lf == CHOOSE j \in 1..Len(c) :
                   /\ c[j] = "n"
                   /\ \A i \in 1..(j - 1) : c[i] # "n"
       IN <<SubSeq(c, 1, lf - 1)>> \o PatchedLines(SubSeq(c, lf + 1, Len(c)))

\* an encryption-key line: a directive that opens with #EXT-X-KEY
IsKeyLine(trimmed) == Len(trimmed) >= 2 /\ trimmed[1] = "#" /\ trimmed[2] = "K"

\* what the statement of C19 makes of one line
StatedLine(line, l) ==
  LET trimmed == Trim(line)
  IN IF trimmed = <<>> THEN line
     ELSE IF Head(trimmed) = "#"
          THEN IF IsKeyLine(trimmed) THEN ReplaceURI(line, l) ELSE line
          ELSE SegmentPrefix(l) \o LastPart(trimmed)

\* C19: the patched manifest has as many lines as the manifest, in the
\* same order; a directive line is unchanged, but for the URI value of an
\* encryption-key line, which becomes key/{lessonId}; a blank line is
\* unchanged; any other line becomes segment/{lessonId}/{leaf}, the leaf
\* being the text after the last "/" of the trimmed line.
C19_LineByLine ==
  (calc.fn = "playlist" /\ calc.stage = "sent" /\ ~calc.threw) =>
    LET from == ManifestLines(calc.content)
        to == PatchedLines(calc.body)
    IN /\ Len(to) = Len(from)
       /\ \A i \in 1..Len(from) :
            i <= Len(to) => to[i] = StatedLine(from[i], calc.lessonId)

IsNumber(p) == p # <<>> /\ \A i \in 1..Len(p) : p[i] \in Digits

\* the header is bytes=s-e with s a number and e a number or absent
ByteRange(h) ==
  /\ Len(h) = 2
  /\ IsNumber(h[1])
  /\ h[2] = <<>> \/ IsNumber(h[2])

FirstByte(h) == LeadingDigits(h[1], 0)
LastByte(h, T) == IF h[2] = <<>> THEN T - 1 ELSE LeadingDigits(h[2], 0)

\* 206, Content-Range bytes s-e/T, Accept-Ranges, Content-Length e-s+1 and
\* the bytes s..e as the body
PartialContent(c, s, e) ==
  /\ c.status = 206
  /\ c.contentRange = <<s, e, c.fileSize>>
  /\ c.acceptRanges
  /\ c.contentLength = Num(e - s + 1)
  /\ c.body = Bytes(s, e)

\* 200 with Content-Length T and the whole file
WholeFile(c) ==
  /\ c.status = 200
  /\ c.contentLength = Num(c.fileSize)
  /\ c.body = Bytes(0, c.fileSize - 1)

\* C13 as stated: for a file of T bytes and whatever header bytes=s-e (e
\* defaulting to T-1) the answer is 206 with Content-Range bytes s-e/T,
\* Accept-Ranges, Content-Length e-s+1 and the bytes s..e; without a Range
\* header it is 200 with Content-Length T.
C13_RangeAsStated ==
  (calc.fn = "range" /\ calc.stage = "sent") =>
    /\ ByteRange(calc.range) =>
         PartialContent(calc, FirstByte(calc.range),
                        LastByte(calc.range, calc.fileSize))
    /\ calc.range = NoRange => WholeFile(calc)

\* C13, for the ranges that lie inside the file: for a file of T bytes and
\* a header bytes=s-e (e defaulting to T-1) with s <= e <= T-1 the answer is
\* 206 with Content-Range bytes s-e/T, Accept-Ranges, Content-Length e-s+1
\* and the bytes s..e; without a Range header it is 200 with
\* Content-Length T.
C13_RangeInsideFile ==
  (calc.fn = "range" /\ calc.stage = "sent") =>
    /\ ( /\ ByteRange(calc.range)
         /\ FirstByte(calc.range) <= LastByte(calc.range, calc.fileSize)
         /\ LastByte(calc.range, calc.fileSize) <= calc.fileSize - 1 ) =>
         PartialContent(calc, FirstByte(calc.range),
                        LastByte(calc.range, calc.fileSize))
    /\ calc.range = NoRange => WholeFile(calc)

\* a slice from the middle of a file has been answered with 206
C13_Witness ==
  /\ calc.fn = "range"
  /\ calc.stage = "sent"
  /\ ByteRange(calc.range)
  /\ calc.range[2] # <<>>
  /\ 0 < FirstByte(calc.range)
  /\ FirstByte(calc.range) < LastByte(calc.range, calc.fileSize)
  /\ LastByte(calc.range, calc.fileSize) < calc.fileSize - 1
  /\ calc.status = 206
  /\ calc.body = Bytes(FirstByte(calc.range),
                       LastByte(calc.range, calc.fileSize))

(***************************************************************************)
(* Files seen by viewers while the encoder works.                          *)
(***************************************************************************)
\* the files of l's directory are those a finished encode left: the
\* playlist is closed and no encoder is at work on the directory
FinishedEncode(l) ==
  /\ hls[l].playlist = "complete"
  /\ \A j \in Encoding : jobs[j].lessonId # l

\* C21: no partially written file is exposed: a manifest or segment
\* request either fails or returns a file of the lesson's directory that a
\* finished encode wrote completely, also while an encode is in progress or
\* has failed part-way.  (The key file is written in one synchronous call
\* and is left out here: it is never partial.)
C21_NoPartialFiles ==
  ( /\ resp.ep \in Protected
    /\ Success(resp)
    /\ resp.body \in {"playlist", "segment"} ) =>
    FinishedEncode(resp.lesson)

(***************************************************************************)
(* The gateway and the lesson it serves.                                   *)
(***************************************************************************)
\* C22: the gateway never mutates a lesson: no manifest, key, segment or
\* progressive request, whatever its outcome, changes the lesson's row
\* (status, error text, video_url) or a file of the lesson (playlist, key,
\* segments, raw input).
C22_GatewayReadOnly ==
  [][ resp'.ep \in Protected =>
        /\ lessons' = lessons
        /\ rawFiles' = rawFiles
        /\ hls' = hls ]_vars

\* a file of a lesson's directory has been served
C22_Witness ==
  /\ resp.ep \in Protected
  /\ resp.status = 200
  /\ resp.body \in {"playlist", "key", "segment"}
  /\ lessons[resp.lesson].row = "live"
  /\ lessons[resp.lesson].video_url # NoUrl
  /\ hls[resp.lesson].key # 0

(***************************************************************************)
(* Encoder failure.                                                        *)
(***************************************************************************)
\* C23: when the encoder fails, the handler re-throws and the queue's retry
\* policy decides (one more attempt counted, the job delayed while attempts
\* remain and failed after the third), the lesson's video_url is unchanged
\* and the raw input is not deleted, so that the next delivery attempt
\* finds it.
C23_EncoderFailure ==
  [][ \A j \in JobIds :
        ( /\ jobs[j].state = "active"
          /\ jobs[j].pc \in {"spawned", "running"}
          /\ jobs'[j].state # "active" ) =>
          /\ jobs'[j].attemptsMade = jobs[j].attemptsMade + 1
          /\ jobs'[j].state = IF jobs[j].attemptsMade + 1 < 3
                              THEN "delayed" ELSE "failed"
          /\ lessons' = lessons
          /\ rawFiles' = rawFiles ]_vars

\* a job whose encoder failed is delivered again and its raw input is there
C23_Witness ==
  \E j \in JobIds :
    /\ jobs[j].state = "active"
    /\ jobs[j].pc = "spawned"
    /\ jobs[j].attemptsMade >= 1
    /\ jobs[j].inputPath \in rawFiles
    /\ lessons[jobs[j].lessonId].video_url = RawUrl(jobs[j].inputPath)

\* C24: the key-info file is transient: in every state in which no encoder
\* is at work for a lesson, after encoder success and after encoder failure
\* alike, there is no enc.keyinfo in the lesson's directory.
C24_KeyInfoTransient ==
  \A l \in LessonIds :
    (\A j \in Encoding : jobs[j].lessonId # l) => ~hls[l].keyinfo

(***************************************************************************)
(* The segment endpoint and the name it is given.                          *)
(***************************************************************************)
\* C25: a segment request that passes the access check for a lesson only
\* ever returns a file located directly inside that lesson's own output
\* directory, whatever the segment name is: never a file of another
\* lesson's directory.
C25_SegmentConfined ==
  (resp.ep = "segment" /\ Success(resp)) => resp.dir = resp.lesson

(***************************************************************************)
(* The key on disk and the segments of the manifest served.                *)
(***************************************************************************)
\* C26: whenever the manifest endpoint serves a patched manifest for a
\* lesson, the key file on disk for that lesson is the key the segments of
\* that manifest were encrypted with, under every interleaving of uploads,
\* re-uploads, retries and requests.
C26_KeyMatchesSegments ==
  (resp.ep = "manifest" /\ resp.status = 200 /\ resp.body = "playlist") =>
    hls[resp.lesson].key = hls[resp.lesson].segKey

(***************************************************************************)
(* The recorded location and the job's outcome.                            *)
(***************************************************************************)
\* C27: in every reachable state the video_url of a video lesson names a
\* file that exists: the raw upload until the worker has recorded the
\* manifest path, the manifest afterwards; there is no state in which the
\* raw input is deleted while the row still points at it.
C27_LocationExists ==
  \A l \in LessonIds :
    (lessons[l].row = "live" /\ lessons[l].video_url # NoUrl) =>
      UrlExists(lessons[l].video_url)

\* C28: a job is reported completed only if, at that moment, an existing
\* lesson row of the job's lesson id holds the manifest path the job
\* produced; a job whose lesson was deleted while the job was queued or
\* running is not reported as a success.
C28_CompletedMeansRecorded ==
  [][ \A j \in JobIds :
        (jobs[j].state # "completed" /\ jobs'[j].state = "completed") =>
          /\ lessons'[jobs[j].lessonId].row = "live"
          /\ lessons'[jobs[j].lessonId].video_url = HlsUrl(jobs[j].lessonId)
    ]_vars

(***************************************************************************)
(* The order of the checks at the three endpoints.                         *)
(***************************************************************************)
\* the lesson of the request passes the access check for its viewer
Authorized(v, l) == lessons[l].is_preview \/ PolicyPasses(v, l)

\* C29: on the manifest, key and segment endpoints the outcome follows one
\* precedence: a lesson id without a row yields 404 whatever the viewer;
\* otherwise a viewer who fails the policy gets 401 (guest) or 403, whether
\* or not the file exists; only an authorized viewer gets 404 for a missing
\* file.
C29_Precedence ==
  resp.ep \in Protected =>
    /\ lessons[resp.lesson].row # "live" => resp.status = 404
    /\ ( /\ lessons[resp.lesson].row = "live"
         /\ ~Authorized(resp.viewer, resp.lesson) ) =>
         resp.status = IF resp.viewer = "guest" THEN 401 ELSE 403
    /\ (resp.status = 404 /\ lessons[resp.lesson].row = "live") =>
         Authorized(resp.viewer, resp.lesson)

\* a viewer without access has been turned away from the key of a lesson
\* that has none yet
C29_Witness ==
  /\ resp.ep = "key"
  /\ lessons[resp.lesson].row = "live"
  /\ ~Authorized(resp.viewer, resp.lesson)
  /\ hls[resp.lesson].key = 0
  /\ resp.status \in {401, 403}

(***************************************************************************)
(* The range reported against the range sent.                              *)
(***************************************************************************)
\* the number of bytes of a body
BodyLength(b) == IF b.to < b.from THEN 0 ELSE b.to - b.from + 1

\* C30: every 206 answer of the progressive endpoint for a file of T bytes
\* reports a range with 0 <= start <= end <= T-1 and a Content-Length equal
\* to the number of body bytes sent, whatever the Range header.
C30_RangeWithinFile ==
  (calc.fn = "range" /\ calc.stage = "sent" /\ calc.status = 206) =>
    /\ 0 <= calc.contentRange[1]
    /\ calc.contentRange[1] <= calc.contentRange[2]
    /\ calc.contentRange[2] <= calc.fileSize - 1
    /\ calc.contentLength = Num(BodyLength(calc.body))

====
